---- MODULE Spec2Model ----
(***************************************************************************)
(* Malware-detection service of ENEE457_Group7.                            *)
(*                                                                         *)
(*   Spec         the inference server: load_model at import, predict_file *)
(*                and the POST /predict handler, in both variants          *)
(*                (code/backend/main.py and standalone_app/app.py).        *)
(*   SpecHarness  the batch evaluation harness (batch_test.py): the        *)
(*                4-worker thread pool, as_completed collection and the    *)
(*                metrics reduction.                                       *)
(*   SpecMetrics  the metrics reduction alone, over every record list      *)
(*                test_file can produce.                                   *)
(*                                                                         *)
(* Probabilities and confidences are percentages (0.35 is 35, 1.0 is 100); *)
(* ratios are kept as numerator/denominator pairs.                         *)
(***************************************************************************)
EXTENDS Integers, Sequences, FiniteSets, TLC

VARIABLES
    \* ---- inference server ----
    variant,        \* "backend" (main.py) or "standalone" (app.py)
    phase,          \* "import" before load_model has run, then "serving"
    model,          \* module-level `model`: "None" or "loaded"
    hasProba,       \* hasattr(model, "predict_proba")
    thrember,       \* THREMBER_AVAILABLE (app.py); TRUE in main.py (ember imported)
    extractDim,     \* length of the vector the installed extractor returns
    scalerDim,      \* number of features the fitted scaler expects (up to MaxLen + 1)
    startup,        \* what load_model met: "absent", "unloadable" or "ok"
    loadCount,      \* number of load_model() calls so far
    last,           \* observation of the last request (see NoCall)
    \* ---- evaluation harness ----
    hpc,            \* position of main(): "submit", "collect", "reduce", "done"
    nMalware,       \* number of files found in malware_samples
    nFiles,         \* number of files submitted (malware first, then benign)
    failMode,       \* how a submission of this run fails, when it fails
    submitted,      \* number of futures appended to `futures` so far
    task,           \* per future: "queued", "running", "done", "collected"
    outcome,        \* per future: what its request met (see Outcomes)
    future,         \* per future: what test_file left in it (see NoFuture)
    results,        \* the `results` list of main()
    metrics         \* the reduction's report (see NoMetrics)

serverVars == <<variant, phase, model, hasProba, thrember, extractDim, scalerDim,
                startup, loadCount, last>>
harnessVars == <<hpc, nMalware, nFiles, failMode, submitted, task, outcome, future, results,
                 metrics>>
vars == <<serverVars, harnessVars>>

(***************************************************************************)
(* Bounds of the model.                                                    *)
(***************************************************************************)
MaxLen == 1         \* longest feature vector the extractor returns
MaxFiles == 5       \* files submitted by one harness run (SpecHarness)
MaxRecords == 3     \* records reduced by one metrics run (SpecMetrics)

(***************************************************************************)
(* Inference server: data.                                                 *)
(***************************************************************************)
Variants == {"backend", "standalone"}

\* Uploaded bodies: empty, one non-PE byte, and "MZ" (a PE header cut short).
FileInputs == {<<>>, <<0>>, <<77, 90>>}

\* float32 entries of a feature vector: a finite value, or NaN, +Inf, -Inf.
\* "zero", "ceil" and "floor" are the finite values nan_to_num writes.
RawEntries == {"fin", "nan", "posinf", "neginf"}

IsFinite(x) == x \notin {"nan", "posinf", "neginf"}

AllFinite(v) == \A i \in 1..Len(v) : IsFinite(v[i])

\* Vectors the installed extractor can return: its fixed length, any entries.
Vectors == [1..extractDim -> RawEntries]

\* A stage raising for a reason other than the vector's shape.
StageFaults == {"none", "scaler", "pca", "score"}

\* What one request meets: the extractor's outcome, a stage fault, the score.
\* (Only the choices the request can get to are enumerated.)
Envs(scores) ==
    {[ext |-> [ok |-> FALSE, vec |-> <<>>], fault |-> "none", prob |-> 0]}
    \cup {[ext |-> [ok |-> TRUE, vec |-> v], fault |-> f, prob |-> 0] :
             v \in Vectors, f \in StageFaults \ {"none"}}
    \cup {[ext |-> [ok |-> TRUE, vec |-> v], fault |-> "none", prob |-> p] :
             v \in Vectors, p \in scores}

\* predict_proba(...)[0][1] as a percentage.
Probs == {0, 35, 40, 50, 100}

\* model.predict(...)[0] coerced by float(): class 0 or class 1.
HardLabels == {0, 100}

ThresholdBackend == 35
ThresholdStandalone == 50

\* What a request leaves to observe.  `called` says predict_file ran; `raised`
\* that an exception left it; `status` is the HTTP status (0: no HTTP request).
NoCall ==
    [op |-> "none", bytes |-> <<>>, status |-> 0, called |-> FALSE,
     raised |-> FALSE, label |-> "", confidence |-> 0,
     extractorCalled |-> FALSE, scalerCalled |-> FALSE, scalerIn |-> <<>>,
     scored |-> FALSE, prob |-> 0, stage |-> "none"]

(***************************************************************************)
(* load_model                                                              *)
(***************************************************************************)
\* The artifact set on disk as the variant needs it: main.py needs the model,
\* the scaler and the PCA file, app.py the model and the scaler.
ArtifactState(v, modelFile, scalerFile, pcaFile, loadRaises) ==
    IF ~modelFile \/ ~scalerFile \/ (v = "backend" /\ ~pcaFile) THEN "absent"
    ELSE IF loadRaises THEN "unloadable"
    ELSE "ok"

\* main.py: all three artifacts must exist and joblib.load must not raise.
LoadModelBackend(modelFile, scalerFile, pcaFile, loadRaises) ==
    IF ~(modelFile /\ scalerFile /\ pcaFile) THEN "None"
    ELSE IF loadRaises THEN "None"
    ELSE "loaded"

\* app.py: a model file and a scaler file must be found, and loading not raise.
LoadModelStandalone(modelFile, scalerFile, loadRaises) ==
    IF ~modelFile THEN "None"
    ELSE IF ~scalerFile THEN "None"
    ELSE IF loadRaises THEN "None"
    ELSE "loaded"

(***************************************************************************)
(* predict_file                                                            *)
(***************************************************************************)
\* np.nan_to_num(features, nan=0.0, posinf=1e10, neginf=-1e10)
NanToNum(v) ==
    [i \in 1..Len(v) |->
        CASE v[i] = "nan" -> "zero"
          [] v[i] = "posinf" -> "ceil"
          [] v[i] = "neginf" -> "floor"
          [] OTHER -> v[i]]

\* Mutant: the comparison is the wrong way round.
Decide_Inverted(prob, threshold) == IF prob < threshold THEN "malicious" ELSE "benign"

\* Mutant: the comparison is not strict.
Decide_NotStrict(prob, threshold) == IF prob >= threshold THEN "malicious" ELSE "benign"

\* label = "malicious" if malicious_prob > THRESHOLD else "benign"
Decide(prob, threshold) == IF prob > threshold THEN "malicious" ELSE "benign"

\* An exception raised inside the try block at `stage`.
Raise(r, stage) == [r EXCEPT !.raised = TRUE, !.stage = stage]

\* return label, malicious_prob
Scored(r, prob, threshold) ==
    [r EXCEPT !.scored = TRUE, !.prob = prob,
              !.label = Decide(prob, threshold), !.confidence = prob]

\* Mutant: the except clause is missing, the exception leaves predict_file.
ExceptReturn_NoCatch(r) == r

\* except Exception as e: ... return "Processing Error", 0.0
ExceptReturn(r) ==
    IF r.raised
    THEN [r EXCEPT !.raised = FALSE, !.label = "Processing Error", !.confidence = 0]
    ELSE r

\* Mutant: a vector of the wrong length is scored all the same.
TryBackend_NoShapeCheck(r, ext, fault, prob) ==
    LET r1 == [r EXCEPT !.extractorCalled = TRUE]
        r2 == [r1 EXCEPT !.scalerCalled = TRUE, !.scalerIn = ext.vec]
    IN  IF ~ext.ok THEN Raise(r1, "extract")
        ELSE IF fault = "scaler" THEN Raise(r2, "scaler")
        ELSE IF fault = "pca" THEN Raise(r2, "pca")
        ELSE IF fault = "score" THEN Raise(r2, "score")
        ELSE Scored(r2, prob, ThresholdBackend)

\* main.py, the try block of predict_file: extract, reshape, scaler, pca, score.
TryBackend(r, ext, fault, prob) ==
    LET r1 == [r EXCEPT !.extractorCalled = TRUE]
        r2 == [r1 EXCEPT !.scalerCalled = TRUE, !.scalerIn = ext.vec]
    IN  IF ~ext.ok THEN Raise(r1, "extract")
        ELSE IF Len(ext.vec) # scalerDim \/ fault = "scaler" THEN Raise(r2, "scaler")
        ELSE IF fault = "pca" THEN Raise(r2, "pca")
        ELSE IF fault = "score" THEN Raise(r2, "score")
        ELSE Scored(r2, prob, ThresholdBackend)

\* app.py, the try block of predict_file: extract, reshape, nan_to_num, scaler, score.
TryStandalone(r, ext, fault, prob) ==
    LET r1 == [r EXCEPT !.extractorCalled = TRUE]
        features == IF ext.ok THEN NanToNum(ext.vec) ELSE <<>>
        r2 == [r1 EXCEPT !.scalerCalled = TRUE, !.scalerIn = features]
    IN  IF ~ext.ok THEN Raise(r1, "extract")
        ELSE IF Len(features) # scalerDim \/ fault = "scaler" THEN Raise(r2, "scaler")
        ELSE IF fault = "score" THEN Raise(r2, "score")
        ELSE Scored(r2, prob, ThresholdStandalone)

\* Mutant: the `model is None` test is missing.
PredictFileBackend_NoGuard(r, ext, fault, prob) ==
    ExceptReturn(TryBackend(r, ext, fault, prob))

PredictFileBackend(r, ext, fault, prob) ==
    IF model = "None"
    THEN [r EXCEPT !.label = "Model not loaded", !.confidence = 0]
    ELSE ExceptReturn(TryBackend(r, ext, fault, prob))

PredictFileStandalone(r, ext, fault, prob) ==
    IF model = "None"
    THEN [r EXCEPT !.label = "Model not loaded", !.confidence = 0]
    ELSE IF ~thrember
    THEN [r EXCEPT !.label = "Feature extractor not available", !.confidence = 0]
    ELSE ExceptReturn(TryStandalone(r, ext, fault, prob))

\* predict_file(file_bytes) of the running variant.
PredictFile(bytes, ext, fault, prob) ==
    LET r == [NoCall EXCEPT !.op = "predict_file", !.bytes = bytes, !.called = TRUE]
    IN  IF variant = "backend"
        THEN PredictFileBackend(r, ext, fault, prob)
        ELSE PredictFileStandalone(r, ext, fault, prob)

(***************************************************************************)
(* POST /predict                                                           *)
(***************************************************************************)
\* The try block of predict(): `exc` is the exception it raises, if any:
\* "HTTPException" for the empty file, "Exception" for one out of predict_file.
PredictTry(bytes, ext, fault, prob) ==
    LET none == [NoCall EXCEPT !.op = "predict", !.bytes = bytes]
        r == [PredictFile(bytes, ext, fault, prob) EXCEPT !.op = "predict"]
    IN  IF Len(bytes) = 0
        THEN [exc |-> "HTTPException", res |-> [none EXCEPT !.status = 400]]
        ELSE IF r.raised
        THEN [exc |-> "Exception", res |-> r]
        ELSE [exc |-> "none", res |-> [r EXCEPT !.status = 200]]

\* except Exception as e: raise HTTPException(status_code=500, ...).
\* HTTPException is a subclass of Exception, so the clause takes it too.
PredictExcept(t) ==
    IF t.exc \in {"HTTPException", "Exception"}
    THEN [t.res EXCEPT !.status = 500]
    ELSE t.res

\* The response of POST /predict.
Predict(bytes, ext, fault, prob) == PredictExcept(PredictTry(bytes, ext, fault, prob))

(***************************************************************************)
(* Evaluation harness: data.                                               *)
(***************************************************************************)
MaxWorkers == 4

\* What one submission meets.  "ok" is an HTTP 200 answer carrying the server's
\* (label, confidence); "http_error" any other status; the other kinds are
\* exceptions raised by open() or requests.post().
OkOutcome(l, c) == [kind |-> "ok", status |-> 200, label |-> l, confidence |-> c]
FailOutcome(k, st) == [kind |-> k, status |-> st, label |-> "", confidence |-> 0]

NoOutcome == FailOutcome("none", 0)

FailureOutcomes ==
    {FailOutcome("read_error", 0), FailOutcome("network_error", 0),
     FailOutcome("timeout", 0), FailOutcome("http_error", 500)}

\* The answers the servers above give with HTTP 200.
OkOutcomes ==
    {OkOutcome("malicious", 90), OkOutcome("benign", 10),
     OkOutcome("Model not loaded", 0), OkOutcome("Processing Error", 0)}

Outcomes == OkOutcomes \cup FailureOutcomes

\* The outcomes explored under the thread pool: the server answers
\* ("malicious", 0.9), or the submission fails the way this run's failures do.
PoolOutcomes == {OkOutcome("malicious", 90), failMode}

\* Python's None in a field that otherwise holds a string.
None == "None"

Truthy(x) == x \notin {None, ""}

\* Files are named by their position in the submission order: the malware
\* samples first, then the benign ones.
Expected(i) == IF i <= nMalware THEN "malicious" ELSE "benign"

NoRecord ==
    [file |-> 0, expected |-> "", predicted |-> None, confidence |-> 0,
     correct |-> FALSE, error |-> None]

NoFuture == [exc |-> FALSE, rec |-> NoRecord]

\* str(e), and f"HTTP {response.status_code}".
ErrorText(o) ==
    CASE o.kind = "read_error" -> "[Errno 13] Permission denied"
      [] o.kind = "network_error" -> "Connection refused"
      [] o.kind = "timeout" -> "Read timed out"
      [] o.kind = "http_error" /\ o.status = 500 -> "HTTP 500"
      [] OTHER -> "HTTP error"

ErrorRecord(i, expected, o) ==
    [file |-> i, expected |-> expected, predicted |-> None, confidence |-> 0,
     correct |-> FALSE, error |-> ErrorText(o)]

(***************************************************************************)
(* test_file                                                               *)
(***************************************************************************)
\* The try block: open, requests.post, then the branch on status_code.
\* `exc` says an exception was raised in it.
TestFileTry(i, expected, o) ==
    IF o.kind \in {"read_error", "network_error", "timeout"}
    THEN [exc |-> TRUE, rec |-> NoRecord]
    ELSE IF o.status = 200
    THEN [exc |-> FALSE,
          rec |-> [file |-> i, expected |-> expected, predicted |-> o.label,
                   confidence |-> o.confidence, correct |-> (o.label = expected),
                   error |-> None]]
    ELSE [exc |-> FALSE, rec |-> ErrorRecord(i, expected, o)]

\* Mutant: the except clause is missing, the exception is left in the future.
TestFileExcept_NoCatch(i, expected, o, t) == t

\* except Exception as e: return {... "error": str(e)}
TestFileExcept(i, expected, o, t) ==
    IF t.exc THEN [exc |-> FALSE, rec |-> ErrorRecord(i, expected, o)] ELSE t

TestFile(i, expected, o) == TestFileExcept(i, expected, o, TestFileTry(i, expected, o))

(***************************************************************************)
(* The metrics reduction of main().                                        *)
(***************************************************************************)
Value(n, d) == [kind |-> "value", num |-> n, den |-> d]
NotApplicable == [kind |-> "N/A", num |-> 0, den |-> 1]
Omitted == [kind |-> "omitted", num |-> 0, den |-> 1]
ZeroDivision == [kind |-> "ZeroDivisionError", num |-> 0, den |-> 0]

\* a / b on numbers, and on ratios.
Div(a, b) == IF b = 0 THEN ZeroDivision ELSE Value(a, b)
RMul(x, y) == Value(x.num * y.num, x.den * y.den)
RAdd(x, y) == Value(x.num * y.den + y.num * x.den, x.den * y.den)
RDiv(x, y) == IF y.num = 0 THEN ZeroDivision ELSE Value(x.num * y.den, x.den * y.num)

\* Mutant: the counting loops stop at the first errored record.
Positions_UntilError(rs) ==
    {k \in 1..Len(rs) : \A j \in 1..k : ~Truthy(rs[j].error)}

\* The positions of a record list.
Positions(rs) == 1..Len(rs)

RECURSIVE SumConfidence(_, _)
SumConfidence(rs, ks) ==
    IF ks = {} THEN 0
    ELSE LET k == CHOOSE x \in ks : TRUE
         IN  rs[k].confidence + SumConfidence(rs, ks \ {k})

\* f1 = 2 * (precision * recall) / (precision + recall) if (precision + recall) > 0 else 0
F1Score(precision, recall) ==
    IF RAdd(precision, recall).num > 0
    THEN RDiv(RMul(Value(2, 1), RMul(precision, recall)), RAdd(precision, recall))
    ELSE Value(0, 1)

\* Mutant: the `if len(malware_results) > 0` guard is missing.
Recall_Unguarded(tp, nMal) == Div(tp, nMal)

\* if len(malware_results) > 0: print(Recall ...)
Recall(tp, nMal) == IF nMal > 0 THEN Div(tp, nMal) ELSE Omitted

\* Mutant: the errored records stay in the accuracy denominator.
Accuracy_AllRecords(correct, total, errors) ==
    IF total > 0 THEN Div(correct, total) ELSE NotApplicable

\* f"Accuracy: {correct/(total-errors)*100:.1f}%" if total-errors > 0 else "N/A"
Accuracy(correct, total, errors) ==
    IF total - errors > 0 THEN Div(correct, total - errors) ELSE NotApplicable

Metrics(rs) ==
    LET InMalware(r) == r.expected = "malicious" /\ ~Truthy(r.error)
        InBenign(r) == r.expected = "benign" /\ ~Truthy(r.error)
        total == Len(rs)
        correct == Cardinality({k \in Positions(rs) : rs[k].correct})
        errors == Cardinality({k \in Positions(rs) : Truthy(rs[k].error)})
        nMal == Cardinality({k \in Positions(rs) : InMalware(rs[k])})
        nBen == Cardinality({k \in Positions(rs) : InBenign(rs[k])})
        tp == Cardinality({k \in Positions(rs) :
                             InMalware(rs[k]) /\ rs[k].predicted = "malicious"})
        fn == Cardinality({k \in Positions(rs) :
                             InMalware(rs[k]) /\ rs[k].predicted = "benign"})
        tn == Cardinality({k \in Positions(rs) :
                             InBenign(rs[k]) /\ rs[k].predicted = "benign"})
        fp == Cardinality({k \in Positions(rs) :
                             InBenign(rs[k]) /\ rs[k].predicted = "malicious"})
        malConfs == {k \in Positions(rs) : InMalware(rs[k]) /\ Truthy(rs[k].predicted)}
        benConfs == {k \in Positions(rs) : InBenign(rs[k]) /\ Truthy(rs[k].predicted)}
        m == [total |-> total, correct |-> correct, errors |-> errors,
              malware_results |-> nMal, benign_results |-> nBen,
              true_positives |-> tp, false_negatives |-> fn,
              true_negatives |-> tn, false_positives |-> fp,
              accuracy |-> Accuracy(correct, total, errors),
              recall |-> Recall(tp, nMal),
              specificity |-> IF nBen > 0 THEN Div(tn, nBen) ELSE Omitted,
              precision |-> IF tp + fp > 0 THEN Div(tp, tp + fp) ELSE Omitted,
              f1 |-> IF tp + fp > 0 /\ nMal > 0
                     THEN F1Score(Div(tp, tp + fp), Div(tp, nMal))
                     ELSE Omitted,
              avg_malware |-> IF malConfs # {}
                              THEN Div(SumConfidence(rs, malConfs), Cardinality(malConfs))
                              ELSE Omitted,
              avg_benign |-> IF benConfs # {}
                             THEN Div(SumConfidence(rs, benConfs), Cardinality(benConfs))
                             ELSE Omitted]
    IN  m

Ratios == {"accuracy", "recall", "specificity", "precision", "f1", "avg_malware",
           "avg_benign"}

\* The report before the reduction has run.
NoMetrics ==
    [total |-> 0, correct |-> 0, errors |-> 0, malware_results |-> 0,
     benign_results |-> 0, true_positives |-> 0, false_negatives |-> 0,
     true_negatives |-> 0, false_positives |-> 0, accuracy |-> Omitted,
     recall |-> Omitted, specificity |-> Omitted, precision |-> Omitted,
     f1 |-> Omitted, avg_malware |-> Omitted, avg_benign |-> Omitted]

(***************************************************************************)
(* Evaluation harness: actions of main().                                  *)
(***************************************************************************)
Running == {i \in 1..Len(task) : task[i] = "running"}
Queued == {i \in 1..Len(task) : task[i] = "queued"}

\* futures.append(executor.submit(test_file, f, label)), for the next file.
Submit ==
    /\ hpc = "submit"
    /\ submitted < nFiles
    /\ submitted' = submitted + 1
    /\ task' = Append(task, "queued")
    /\ outcome' = Append(outcome, NoOutcome)
    /\ future' = Append(future, NoFuture)
    /\ UNCHANGED <<hpc, nMalware, nFiles, failMode, results, metrics>>
    /\ UNCHANGED serverVars

\* Both for-loops are through: main() enters the as_completed loop.
EndSubmit ==
    /\ hpc = "submit"
    /\ submitted = nFiles
    /\ hpc' = "collect"
    /\ UNCHANGED <<nMalware, nFiles, failMode, submitted, task, outcome, future, results, metrics>>
    /\ UNCHANGED serverVars

\* Mutant: the pool starts a thread for every queued item.
CanStart_Unbounded == TRUE

\* ThreadPoolExecutor(max_workers=4): a worker thread is free.
CanStart == Cardinality(Running) < MaxWorkers

\* A free worker takes the oldest queued work item and calls test_file.
Start ==
    /\ Queued # {}
    /\ CanStart
    /\ LET i == CHOOSE x \in Queued : \A y \in Queued : x <= y
       IN  task' = [task EXCEPT ![i] = "running"]
    /\ UNCHANGED <<hpc, nMalware, nFiles, failMode, submitted, outcome, future, results, metrics>>
    /\ UNCHANGED serverVars

\* test_file returns in its worker: the future is done.
Finish ==
    /\ \E i \in Running, o \in PoolOutcomes :
          /\ task' = [task EXCEPT ![i] = "done"]
          /\ outcome' = [outcome EXCEPT ![i] = o]
          /\ future' = [future EXCEPT ![i] = TestFile(i, Expected(i), o)]
    /\ UNCHANGED <<hpc, nMalware, nFiles, failMode, submitted, results, metrics>>
    /\ UNCHANGED serverVars

\* One turn of `for i, future in enumerate(as_completed(futures))`:
\* result = future.result(); results.append(result).  An exception held by the
\* future is re-raised by result() and ends main().
Collect ==
    /\ hpc = "collect"
    /\ \E i \in 1..Len(task) :
          /\ task[i] = "done"
          /\ task' = [task EXCEPT ![i] = "collected"]
          /\ IF future[i].exc
             THEN hpc' = "aborted" /\ results' = results
             ELSE hpc' = hpc /\ results' = Append(results, future[i].rec)
    /\ UNCHANGED <<nMalware, nFiles, failMode, submitted, outcome, future, metrics>>
    /\ UNCHANGED serverVars

\* Mutant: the loop ends as soon as nothing is done and waiting to be read.
Drained_Early == \A i \in 1..Len(task) : task[i] # "done"

\* as_completed is exhausted: every future has been yielded.
Drained == \A i \in 1..Len(task) : task[i] = "collected"

\* The as_completed loop and the `with` block end.
EndCollect ==
    /\ hpc = "collect"
    /\ Drained
    /\ hpc' = "reduce"
    /\ UNCHANGED <<nMalware, nFiles, failMode, submitted, task, outcome, future, results, metrics>>
    /\ UNCHANGED serverVars

\* "Calculate metrics": the reduction over `results`.
Reduce ==
    /\ hpc = "reduce"
    /\ metrics' = Metrics(results)
    /\ hpc' = "done"
    /\ UNCHANGED <<nMalware, nFiles, failMode, submitted, task, outcome, future, results>>
    /\ UNCHANGED serverVars

ServerIdle ==
    /\ variant = "backend"
    /\ phase = "import"
    /\ model = "None"
    /\ hasProba = FALSE
    /\ thrember = FALSE
    /\ extractDim = 1
    /\ scalerDim = 1
    /\ startup = "unknown"
    /\ loadCount = 0
    /\ last = NoCall

\* main() starts: the two sample folders hold nFiles files, half of them
\* malware (entries that are not files are skipped and never submitted).
InitHarness ==
    /\ ServerIdle
    /\ hpc = "submit"
    /\ nFiles \in 0..MaxFiles
    /\ nMalware = (nFiles + 1) \div 2
    /\ failMode \in FailureOutcomes
    /\ submitted = 0
    /\ task = <<>>
    /\ outcome = <<>>
    /\ future = <<>>
    /\ results = <<>>
    /\ metrics = NoMetrics

NextHarness == Submit \/ EndSubmit \/ Start \/ Finish \/ Collect \/ EndCollect \/ Reduce

SpecHarness == InitHarness /\ [][NextHarness]_vars

\* The reduction alone, over every record list of up to MaxRecords files that
\* test_file can produce (in submission order).
InitMetrics ==
    /\ ServerIdle
    /\ hpc = "reduce"
    /\ nFiles \in 0..MaxRecords
    /\ nMalware \in 0..nFiles
    /\ failMode = NoOutcome
    /\ submitted = nFiles
    /\ task = [i \in 1..nFiles |-> "collected"]
    /\ outcome \in [1..nFiles -> Outcomes]
    /\ future = [i \in 1..nFiles |-> TestFile(i, Expected(i), outcome[i])]
    /\ results = [i \in 1..nFiles |-> future[i].rec]
    /\ metrics = NoMetrics

NextMetrics == Reduce

SpecMetrics == InitMetrics /\ [][NextMetrics]_vars

(***************************************************************************)
(* Inference server: actions.                                              *)
(***************************************************************************)
\* Module import: the thrember import (app.py) and model = load_model().
Import ==
    /\ phase = "import"
    /\ \E modelFile, scalerFile, pcaFile, loadRaises, thr, proba \in BOOLEAN :
          LET m == IF variant = "backend"
                   THEN LoadModelBackend(modelFile, scalerFile, pcaFile, loadRaises)
                   ELSE LoadModelStandalone(modelFile, scalerFile, loadRaises)
          IN  /\ model' = m
              /\ startup' = ArtifactState(variant, modelFile, scalerFile, pcaFile,
                                          loadRaises)
              /\ thrember' = IF variant = "backend" THEN TRUE ELSE thr
              \* XGBClassifier (app.py) always has predict_proba; the pickled
              \* model of main.py may be of any type.
              /\ hasProba' = IF m = "None" THEN FALSE
                             ELSE IF variant = "backend" THEN proba ELSE TRUE
    /\ loadCount' = loadCount + 1
    /\ phase' = "serving"
    /\ UNCHANGED <<variant, extractDim, scalerDim, last>>
    /\ UNCHANGED harnessVars

\* The scores the loaded model can give: probabilities, or hard labels.
Scores == IF hasProba THEN Probs ELSE HardLabels

Served(r) ==
    /\ last' = r
    /\ UNCHANGED <<variant, phase, model, hasProba, thrember, extractDim, scalerDim,
                   startup, loadCount>>
    /\ UNCHANGED harnessVars

\* A direct call of predict_file, as test_backend_load.py makes.
CallPredictFile ==
    /\ phase = "serving"
    /\ \E bytes \in FileInputs, e \in Envs(Scores) :
          Served(PredictFile(bytes, e.ext, e.fault, e.prob))

\* One POST /predict request.
PostPredict ==
    /\ phase = "serving"
    /\ \E bytes \in FileInputs, e \in Envs(Scores) :
          Served(Predict(bytes, e.ext, e.fault, e.prob))

Init ==
    /\ variant \in Variants
    /\ phase = "import"
    /\ model = "None"
    /\ hasProba = FALSE
    /\ thrember = FALSE
    /\ extractDim \in 1..MaxLen
    /\ scalerDim \in 1..(MaxLen + 1)
    /\ startup = "unknown"
    /\ loadCount = 0
    /\ last = NoCall
    /\ hpc = "idle"
    /\ nMalware = 0
    /\ nFiles = 0
    /\ failMode = NoOutcome
    /\ submitted = 0
    /\ task = <<>>
    /\ outcome = <<>>
    /\ future = <<>>
    /\ results = <<>>
    /\ metrics = NoMetrics

Next == Import \/ CallPredictFile \/ PostPredict

Spec == Init /\ [][Next]_vars

(***************************************************************************)
(* Inference server: properties.                                           *)
(***************************************************************************)
Labels == {"malicious", "benign", "Model not loaded", "Processing Error",
           "Feature extractor not available"}

Threshold == IF variant = "backend" THEN ThresholdBackend ELSE ThresholdStandalone

\* C1: whatever the bytes and whether or not the model was loaded, every call
\* of predict_file returns a (label, confidence) pair; no exception leaves it.
C1_PredictFileTotal ==
    last.called =>
        /\ ~last.raised
        /\ last.label \in Labels
        /\ last.confidence \in 0..100

\* C1 witness: predict_file was called on the empty input with a loaded model,
\* the extractor raised, and the call still returned a pair.
C1_Witness ==
    /\ last.called /\ last.op = "predict_file" /\ last.bytes = <<>>
    /\ model = "loaded" /\ last.stage = "extract"
    /\ last.label = "Processing Error" /\ last.confidence = 0

NotLoadedAtStartup == startup \in {"absent", "unloadable"}

\* C2 as stated: artifacts absent or unloadable at startup => every request
\* returns ("model not loaded", 0.0), without extraction and without a reload.
C2_Original ==
    (NotLoadedAtStartup /\ last.called) =>
        /\ last.label = "model not loaded" /\ last.confidence = 0
        /\ ~last.extractorCalled
        /\ loadCount = 1

\* C2 amended: artifacts absent or unloadable at startup => every request
\* returns ("Model not loaded", 0.0) (the label as the code spells it), the
\* extractor and the scaler are never called, and load_model ran exactly once.
C2_NotLoadedShortCircuit ==
    (NotLoadedAtStartup /\ last.called) =>
        /\ ~last.raised
        /\ last.label = "Model not loaded" /\ last.confidence = 0
        /\ ~last.extractorCalled /\ ~last.scalerCalled
        /\ loadCount = 1

\* C2 witness: a request was served after a startup that found no artifacts.
C2_Witness ==
    /\ startup = "absent" /\ last.called /\ last.status = 200
    /\ last.label = "Model not loaded"

\* C3: an empty file posted to /predict is answered with HTTP 400.
C3_EmptyFileIs400 ==
    (last.op = "predict" /\ Len(last.bytes) = 0) => last.status = 400

\* C4: on a scored request the label is "malicious" exactly when the
\* probability is strictly above the variant's THRESHOLD, "benign" otherwise,
\* and the confidence is the probability; 0.40 is "malicious" at 0.35 (main.py)
\* and "benign" at 0.5 (app.py).
C4_ThresholdPolicy ==
    last.scored =>
        /\ last.label = (IF last.prob > Threshold THEN "malicious" ELSE "benign")
        /\ last.confidence = last.prob
        /\ (last.prob = 40 /\ variant = "backend") => last.label = "malicious"
        /\ (last.prob = 40 /\ variant = "standalone") => last.label = "benign"

\* C4 witness: a request scored exactly at the threshold was labelled benign.
C4_Witness ==
    /\ last.scored /\ last.prob = Threshold /\ last.label = "benign"
    /\ last.confidence = Threshold

\* C5: the vector handed to scaler.transform has only finite entries, in both
\* variants.
C5_ScalerInputFinite == last.scalerCalled => AllFinite(last.scalerIn)


(***************************************************************************)
(* Evaluation harness: properties.                                         *)
(***************************************************************************)
RecordsOf(f) == {k \in 1..Len(results) : results[k].file = f}

\* C6: when the reduction starts (and from then on) `results` holds exactly
\* one record per submitted file, and no submission is queued, running or
\* finished but unread.
C6_AllRecordsAtReduction ==
    hpc \in {"reduce", "done"} =>
        /\ Len(task) = nFiles
        /\ \A i \in 1..Len(task) : task[i] = "collected"
        /\ Len(results) = nFiles
        /\ \A f \in 1..nFiles : Cardinality(RecordsOf(f)) = 1

\* C6 witness: more files than workers, successes and failures mixed, and the
\* records arrived out of submission order.
C6_Witness ==
    /\ hpc = "reduce"
    /\ nFiles > MaxWorkers
    /\ Len(results) = nFiles
    /\ results[1].file # 1
    /\ \E k \in 1..Len(results) : Truthy(results[k].error)
    /\ \E k \in 1..Len(results) : ~Truthy(results[k].error)

\* C7: a failed submission (read error, network error, timeout, non-200)
\* leaves a record with error set, predicted None, confidence 0 and correct
\* False; every record is the one its own file's outcome gives, whatever its
\* siblings met; and the run is never aborted.
C7_FailureIsolated ==
    /\ hpc # "aborted"
    /\ \A k \in 1..Len(results) :
          LET r == results[k]
              f == r.file
          IN  /\ f \in 1..nFiles
              /\ r.expected = Expected(f)
              /\ outcome[f] \in FailureOutcomes =>
                    /\ Truthy(r.error)
                    /\ r.predicted = None
                    /\ r.confidence = 0
                    /\ r.correct = FALSE
              /\ outcome[f].kind = "ok" =>
                    /\ r.error = None
                    /\ r.predicted = outcome[f].label
                    /\ r.confidence = outcome[f].confidence
                    /\ r.correct = (outcome[f].label = Expected(f))

\* C7 witness: a run completed in which a submission timed out and a sibling
\* read after it was answered and judged correct.
C7_Witness ==
    /\ hpc = "done"
    /\ \E j, k \in 1..Len(results) :
          /\ j < k
          /\ outcome[results[j].file].kind = "timeout"
          /\ results[j].error = "Read timed out"
          /\ results[k].error = None /\ results[k].correct

\* C9: at most max_workers (4) submissions are running at any moment.
C9_AtMostNInFlight == Cardinality(Running) <= MaxWorkers

\* C9 witness: all four workers are busy while a submission waits in the queue.
C9_Witness == Cardinality(Running) = MaxWorkers /\ Queued # {}

NoErrorCount(label) ==
    Cardinality({k \in 1..Len(results) :
                    results[k].expected = label /\ results[k].error = None})

\* C8: true_positives + false_negatives is the number of malicious-expected
\* records without error, and true_negatives + false_positives the number of
\* benign-expected records without error, whatever label the 200 answers carry.
C8_ConfusionIdentity ==
    hpc = "done" =>
        /\ metrics.true_positives + metrics.false_negatives = NoErrorCount("malicious")
        /\ metrics.true_negatives + metrics.false_positives = NoErrorCount("benign")

NoZeroDivision == \A x \in Ratios : metrics[x].kind # "ZeroDivisionError"

Unreported(x) == metrics[x].kind \in {"N/A", "omitted"}

\* The denominators of the guarded ratios, apart from F1's.
GuardedDenominators ==
    /\ (metrics.total - metrics.errors = 0) => Unreported("accuracy")
    /\ (metrics.malware_results = 0) => Unreported("recall")
    /\ (metrics.benign_results = 0) => Unreported("specificity")
    /\ (metrics.true_positives + metrics.false_positives = 0) => Unreported("precision")
    /\ (\A k \in 1..Len(results) :
           ~(results[k].expected = "malicious" /\ results[k].error = None
             /\ Truthy(results[k].predicted))) => Unreported("avg_malware")
    /\ (\A k \in 1..Len(results) :
           ~(results[k].expected = "benign" /\ results[k].error = None
             /\ Truthy(results[k].predicted))) => Unreported("avg_benign")
    /\ \A x \in Ratios : metrics[x].kind = "value" => metrics[x].den # 0

\* F1 has three denominators: precision's, recall's, and precision + recall,
\* which is zero exactly when there is no true positive.
F1Undefined ==
    \/ metrics.true_positives + metrics.false_positives = 0
    \/ metrics.malware_results = 0
    \/ metrics.true_positives = 0

\* C10 as stated: no division by zero, and every metric with a zero
\* denominator (F1 included) is reported as not-applicable or omitted.
C10_Original ==
    hpc = "done" =>
        /\ NoZeroDivision
        /\ GuardedDenominators
        /\ F1Undefined => Unreported("f1")

\* C10 amended: no division by zero for any record set; accuracy is "N/A" and
\* recall, specificity, precision and the mean confidences are omitted when
\* their denominator is zero; F1 is omitted when precision or recall is not
\* derived, and is reported as 0 when precision + recall = 0.
C10_NoZeroDivision ==
    hpc = "done" =>
        /\ NoZeroDivision
        /\ GuardedDenominators
        /\ (metrics.true_positives + metrics.false_positives = 0
            \/ metrics.malware_results = 0) => Unreported("f1")
        /\ (metrics.true_positives + metrics.false_positives > 0
            /\ metrics.malware_results > 0 /\ metrics.true_positives = 0)
               => metrics.f1 = Value(0, 1)

\* C10 witness: a reduction over records that all failed.
C10_Witness ==
    /\ hpc = "done"
    /\ metrics.total > 0 /\ metrics.errors = metrics.total
    /\ metrics.accuracy = NotApplicable
    /\ Unreported("recall") /\ Unreported("specificity") /\ Unreported("precision")
    /\ Unreported("f1")

\* The submitted files whose request failed.
FailedFiles == {f \in 1..Len(outcome) : outcome[f] \in FailureOutcomes}

\* C11: in a run of M files of which k failed, the report counts k errors, the
\* accuracy denominator is M - k, the k failed records are all in `results`
\* with correct False, and at most M - k records are counted correct.
C11_ErrorsApartFromDenominator ==
    hpc = "done" =>
        LET k == Cardinality(FailedFiles)
        IN  /\ metrics.total = nFiles
            /\ metrics.errors = k
            /\ (nFiles - k > 0) =>
                  /\ metrics.accuracy.kind = "value"
                  /\ metrics.accuracy.den = nFiles - k
                  /\ metrics.accuracy.num = metrics.correct
            /\ (nFiles - k = 0) => metrics.accuracy = NotApplicable
            /\ \A f \in FailedFiles :
                  \E j \in 1..Len(results) :
                     /\ results[j].file = f
                     /\ results[j].correct = FALSE
                     /\ Truthy(results[j].error)
            /\ metrics.correct <= nFiles - k

\* C11 witness: a run of more files than workers in which exactly two
\* submissions failed with a network error.
C11_Witness ==
    /\ hpc = "done"
    /\ nFiles > MaxWorkers
    /\ Cardinality(FailedFiles) = 2
    /\ failMode.kind = "network_error"
    /\ metrics.errors = 2
    /\ metrics.accuracy.den = nFiles - 2
    /\ metrics.correct > 0

\* Every value THRESHOLD can be configured to, as a percentage.
Thresholds == 0..100

\* C12: for the probability of a scored request, raising THRESHOLD never turns
\* "benign" into "malicious" and lowering it never turns "malicious" into
\* "benign"; the label returned is the decision at the variant's THRESHOLD.
C12_ThresholdMonotonic ==
    last.scored =>
        /\ last.label = Decide(last.prob, Threshold)
        /\ \A lo, hi \in Thresholds :
              lo <= hi =>
                 /\ Decide(last.prob, lo) = "benign" => Decide(last.prob, hi) = "benign"
                 /\ Decide(last.prob, hi) = "malicious"
                       => Decide(last.prob, lo) = "malicious"

\* C12 witness: a request scored 0.40 under main.py's 0.35 was labelled
\* malicious, and the same score is benign at app.py's higher 0.5.
C12_Witness ==
    /\ last.scored /\ last.prob = 40 /\ variant = "backend"
    /\ last.label = "malicious"
    /\ Decide(last.prob, ThresholdStandalone) = "benign"

\* A label of the form "<stage> error" for the stage that failed.
StageErrorLabel(stage) ==
    CASE stage = "extract" -> "extraction error"
      [] stage \in {"scaler", "pca"} -> "transform error"
      [] stage = "score" -> "scoring error"
      [] OTHER -> ""

StageFailed == last.called /\ last.stage # "none"

LengthMismatch == last.scalerCalled /\ Len(last.scalerIn) # scalerDim

\* C13 as stated: a failed stage ends the request with confidence 0.0 and a
\* label naming the stage; a length mismatch gives no malicious/benign label.
C13_Original ==
    /\ StageFailed =>
          /\ last.confidence = 0
          /\ last.label = StageErrorLabel(last.stage)
    /\ LengthMismatch => last.label \notin {"malicious", "benign"}

\* C13 amended: a failed stage (extraction, scaler or PCA including a length
\* mismatch, scoring) ends the request with confidence 0.0 and the one label
\* "Processing Error", which does not name the stage; a length mismatch fails
\* the scaler stage and gives no malicious/benign label.
C13_DegradedDecision ==
    /\ StageFailed =>
          /\ ~last.raised
          /\ ~last.scored
          /\ last.confidence = 0
          /\ last.label = "Processing Error"
    /\ LengthMismatch =>
          /\ last.stage = "scaler"
          /\ last.label \notin {"malicious", "benign"}

\* C13 witness: the extractor's vector did not have the length the fitted
\* scaler expects, and the request ended in ("Processing Error", 0.0).
C13_Witness ==
    /\ LengthMismatch /\ StageFailed /\ last.stage = "scaler"
    /\ AllFinite(last.scalerIn)
    /\ last.label = "Processing Error" /\ last.confidence = 0

\* The records of this run's submissions, listed in submission order.
SubmissionOrder ==
    [f \in 1..nFiles |-> TestFile(f, Expected(f), outcome[f]).rec]

\* The aggregate metrics: the counters, the confusion-matrix cells and the
\* ratios derived from them.
Aggregates ==
    {"total", "errors", "correct", "true_positives", "false_negatives",
     "true_negatives", "false_positives", "accuracy", "recall", "specificity",
     "precision", "f1"}

AggregatesOf(m) == [x \in Aggregates |-> m[x]]

\* C14: the aggregate metrics of a run are those of its records taken in
\* submission order, whatever the order in which the submissions completed:
\* two completion orders with the same per-file outcomes give the same metrics.
C14_OrderIndependent ==
    hpc = "done" => AggregatesOf(metrics) = AggregatesOf(Metrics(SubmissionOrder))

\* C14 witness: a finished run of more files than workers whose records were
\* read in another order than the files were submitted, failures among them.
C14_Witness ==
    /\ hpc = "done"
    /\ nFiles > MaxWorkers
    /\ results # SubmissionOrder
    /\ results[1].file = nFiles
    /\ metrics.errors > 0 /\ metrics.errors < metrics.total
    /\ metrics.true_positives > 0 /\ metrics.false_positives > 0

====
